---- MODULE Spec2Model ----
(***************************************************************************)
(* A model of the Gmail MCP tool server (src/src/tools.py and its helpers  *)
(* in src/src/utils).  The server handles one tool invocation at a time:   *)
(* an invocation starts in the idle state, runs its handler to completion  *)
(* (recording every call it issues to the mail provider in `calls`) and    *)
(* leaves its result or its exception in `outcome`.                        *)
(*                                                                         *)
(* Python values are modelled as tagged records ([tag |-> "None"],         *)
(* [tag |-> "list", v |-> <<...>>], ...), text that the code inspects      *)
(* character by character as sequences of one-character strings.           *)
(***************************************************************************)
EXTENDS Integers, Sequences, FiniteSets, TLC

VARIABLES
    pc,        \* "idle" | "batch" (search_emails' batch in flight) | "done";
               \* during startup "main" | "after_init" | "created" | "crashed"
    tool,      \* the tool invoked last
    args,      \* its argument bundle
    calls,     \* the provider calls issued by this invocation, in order
    outcome,   \* what the invocation returned or raised
    labels,    \* the provider's label listing (the remote resource)
    reads,     \* the attachment files whose content this invocation read
    pending,   \* search_emails: batch requests whose callback has not run
    results,   \* search_emails: the `results` list the callbacks append to
               \* (paging: the pages the caller has received so far)
    service,   \* gmail_utils.service: None, or the API client
    loads      \* how many times load_credentials ran to completion

vars == <<pc, tool, args, calls, outcome, labels, reads, pending, results,
          service, loads>>

---------------------------------------------------------------------------
(* Python values *)

NoneV == [tag |-> "None"]
Absent == [tag |-> "absent"]
Str(s) == [tag |-> "str", v |-> s]
List(l) == [tag |-> "list", v |-> l]
Dict(d) == [tag |-> "dict", v |-> d]

\* dict.get(key): a missing key reads as None
Get(x) == IF x.tag = "absent" THEN NoneV ELSE x

\* Python truthiness of None, a str, a list or a dict
Truthy(x) ==
    CASE x.tag \in {"None", "absent"} -> FALSE
      [] x.tag \in {"str", "list"} -> Len(x.v) > 0
      [] x.tag = "dict" -> DOMAIN x.v # {}

Returned(v) == [kind |-> "return", value |-> v]
Raised(exc, fmt, arg) == [kind |-> "raise", exc |-> exc, fmt |-> fmt, arg |-> arg]
NoOutcome == [kind |-> "none"]

\* service = build("gmail", "v1", credentials=creds)
Client == [tag |-> "Resource"]
\* gmail_utils.service.users() while service is None
NoService == Raised("AttributeError", "'NoneType' object has no attribute 'users'", NoneV)

\* sequences over S of length at most n
SeqsUpTo(S, n) == UNION {[1..k -> S] : k \in 0..n}

RECURSIVE Join(_, _)
\* sep.join(parts) on character sequences
Join(parts, sep) ==
    IF Len(parts) = 0 THEN <<>>
    ELSE IF Len(parts) = 1 THEN parts[1]
    ELSE parts[1] \o sep \o Join(Tail(parts), sep)

CommaSpace == <<",", " ">>

---------------------------------------------------------------------------
(* gmail_utils.py: the message composer *)

Whitespace == {" ", "\t", "\n", "\r"}

\* the class [^\s@] of the address pattern
AddrChar(c) == c \notin Whitespace /\ c # "@"

\* positions at which `$` matches: the end, or just before a final newline
DollarEnds(s) ==
    {Len(s)} \cup (IF Len(s) > 0 /\ s[Len(s)] = "\n" THEN {Len(s) - 1} ELSE {})

\* re.match(r'^[^\s@]+@[^\s@]+\.[^\s@]+$', email)
validate_email(email) ==
    \E e \in DollarEnds(email) : \E i \in 1..e : \E j \in 1..e :
        /\ email[i] = "@"
        /\ email[j] = "."
        /\ 1 < i
        /\ i + 1 < j
        /\ j < e
        /\ \A k \in (1..e) \ {i} : AddrChar(email[k])

\* the file system the attachment paths are resolved against
FileKind(path) ==
    CASE path = "/tmp/a.txt" -> "file"
      [] path = "/tmp/b.bin" -> "file"
      [] path = "/tmp/gone.bin" -> "vanishing"   \* is a file, then stat fails
      [] OTHER -> "missing"
FileSize(path) ==
    CASE path = "/tmp/a.txt" -> (24 * 1024 * 1024) \div 2
      [] path = "/tmp/b.bin" -> (24 * 1024 * 1024) \div 2 + 1
      [] OTHER -> 0

\* mimetypes.guess_type(path)[0] or 'application/octet-stream'
GuessType(path) ==
    IF path = "/tmp/a.txt" THEN "text/plain" ELSE "application/octet-stream"

\* max_bytes = 24 * 1024 * 1024
max_bytes == 24 * 1024 * 1024

\* the printable ASCII characters, U+0020 .. U+007E, in code order
PrintableAscii ==
    <<" ", "!", "\"", "#", "$", "%", "&", "'", "(", ")", "*", "+",
      ",", "-", ".", "/", "0", "1", "2", "3", "4", "5", "6", "7",
      "8", "9", ":", ";", "<", "=", ">", "?", "@", "A", "B", "C",
      "D", "E", "F", "G", "H", "I", "J", "K", "L", "M", "N", "O",
      "P", "Q", "R", "S", "T", "U", "V", "W", "X", "Y", "Z", "[",
      "\\", "]", "^", "_", "U+0060", "a", "b", "c", "d", "e", "f", "g",
      "h", "i", "j", "k", "l", "m", "n", "o", "p", "q", "r", "s",
      "t", "u", "v", "w", "x", "y", "z", "{", "|", "}", "~">>

\* the UTF-8 bytes of one character; a character outside ASCII is written as
\* the name of its code point
Utf8(c) ==
    CASE c = "\t" -> <<9>>
      [] c = "\n" -> <<10>>
      [] c = "\r" -> <<13>>
      [] c = "U+00E9" -> <<195, 169>>
      [] c = "U+65E5" -> <<230, 151, 165>>
      [] OTHER -> <<31 + (CHOOSE i \in DOMAIN PrintableAscii : PrintableAscii[i] = c)>>

\* re.search for a character outside the ASCII range
HasNonAscii(text) == \E i \in DOMAIN text : Utf8(text[i])[1] > 127

RECURSIVE Utf8Bytes(_)
\* text.encode('utf-8')
Utf8Bytes(text) ==
    IF Len(text) = 0 THEN <<>> ELSE Utf8(text[1]) \o Utf8Bytes(Tail(text))

Base64Alphabet ==
    <<"A", "B", "C", "D", "E", "F", "G", "H", "I", "J", "K", "L", "M", "N", "O", "P",
      "Q", "R", "S", "T", "U", "V", "W", "X", "Y", "Z", "a", "b", "c", "d", "e", "f",
      "g", "h", "i", "j", "k", "l", "m", "n", "o", "p", "q", "r", "s", "t", "u", "v",
      "w", "x", "y", "z", "0", "1", "2", "3", "4", "5", "6", "7", "8", "9", "+", "/">>

RECURSIVE b64encode(_)
\* base64.b64encode(bytes).decode('utf-8')
b64encode(bytes) ==
    LET D(n) == Base64Alphabet[n + 1]
    IN  IF Len(bytes) = 0 THEN <<>>
        ELSE IF Len(bytes) = 1 THEN
            << D(bytes[1] \div 4), D((bytes[1] % 4) * 16), "=", "=" >>
        ELSE IF Len(bytes) = 2 THEN
            << D(bytes[1] \div 4),
               D((bytes[1] % 4) * 16 + bytes[2] \div 16),
               D((bytes[2] % 16) * 4), "=" >>
        ELSE
            << D(bytes[1] \div 4),
               D((bytes[1] % 4) * 16 + bytes[2] \div 16),
               D((bytes[2] % 16) * 4 + bytes[3] \div 64),
               D(bytes[3] % 64) >>
            \o b64encode(SubSeq(bytes, 4, Len(bytes)))

\* encode_email_header(text): RFC 2047 form for a text with a non-ASCII
\* character, the text itself otherwise
encode_email_header(text) ==
    IF HasNonAscii(text)
    THEN <<"=", "?", "U", "T", "F", "-", "8", "?", "b", "?">>
         \o b64encode(Utf8Bytes(text)) \o <<"?", "=">>
    ELSE text

HexDigits ==
    <<"0", "1", "2", "3", "4", "5", "6", "7", "8", "9", "A", "B", "C", "D", "E", "F">>

\* the Q encoding of one byte of a header: letters, digits and -!*+/ stay, a
\* space becomes an underscore, any other byte becomes =XX
QuopriHeader(b) ==
    IF b \in {33, 42, 43, 45, 47} \cup (48..57) \cup (65..90) \cup (97..122)
    THEN <<PrintableAscii[b - 31]>>
    ELSE IF b = 32 THEN <<"_">>
    ELSE <<"=", HexDigits[(b \div 16) + 1], HexDigits[(b % 16) + 1]>>

RECURSIVE QuopriEncode(_)
QuopriEncode(bytes) ==
    IF Len(bytes) = 0 THEN <<>>
    ELSE QuopriHeader(bytes[1]) \o QuopriEncode(Tail(bytes))

\* the line break that ends a header value is not written
DropFinalLineBreak(value) ==
    IF Len(value) > 0 /\ value[Len(value)] = "\n"
    THEN SubSeq(value, 1, Len(value) - 1)
    ELSE value

\* msg[name] = value ... msg.as_string(): how the message object writes a
\* header value of one line that fits the line length. An ASCII value is
\* written as it is; any other value is written as an encoded word in UTF-8,
\* in base64 when that is strictly shorter than the Q encoding
HeaderAsString(value) ==
    LET line == DropFinalLineBreak(value)
        bytes == Utf8Bytes(line)
        len64 == 4 * ((Len(bytes) + 2) \div 3)
        lenqp == Len(QuopriEncode(bytes))
    IN  IF ~HasNonAscii(line) THEN line
        ELSE IF len64 < lenqp
        THEN <<"=", "?", "u", "t", "f", "-", "8", "?", "b", "?">>
             \o b64encode(bytes) \o <<"?", "=">>
        ELSE <<"=", "?", "u", "t", "f", "-", "8", "?", "q", "?">>
             \o QuopriEncode(bytes) \o <<"?", "=">>

LastInvalid(to_list) ==
    IF \A i \in 1..Len(to_list) : validate_email(to_list[i]) THEN 0
    ELSE CHOOSE i \in 1..Len(to_list) :
            /\ ~validate_email(to_list[i])
            /\ \A j \in (i + 1)..Len(to_list) : validate_email(to_list[j])

\* the first address of to_list that fails validate_email (0 when none does)
FirstInvalid(to_list) ==
    IF \A i \in 1..Len(to_list) : validate_email(to_list[i]) THEN 0
    ELSE CHOOSE i \in 1..Len(to_list) :
            /\ ~validate_email(to_list[i])
            /\ \A j \in 1..(i - 1) : validate_email(to_list[j])

\* the `for path in attachments` size loop: the index of the first path that
\* raises (0 when none does)
FirstBadPath(atts) ==
    IF \A i \in 1..Len(atts) : FileKind(atts[i]) = "file" THEN 0
    ELSE CHOOSE i \in 1..Len(atts) :
            /\ FileKind(atts[i]) # "file"
            /\ \A j \in 1..(i - 1) : FileKind(atts[j]) = "file"

RECURSIVE SumSizes(_)
SumSizes(atts) ==
    IF Len(atts) = 0 THEN 0 ELSE FileSize(atts[1]) + SumSizes(Tail(atts))

OverLimitInclusive(total_bytes) == total_bytes >= max_bytes
\* if total_bytes > max_bytes
OverLimit(total_bytes) == total_bytes > max_bytes

\* the headers both paths emit, in order
MessageHeaders(a, subject) ==
    <<  <<"From", <<"m", "e">> >>, <<"To", Join(a.to, CommaSpace)>> >>
    \o (IF Truthy(Get(a.cc)) THEN << <<"Cc", Join(a.cc.v, CommaSpace)>> >> ELSE <<>>)
    \o (IF Truthy(Get(a.bcc)) THEN << <<"Bcc", Join(a.bcc.v, CommaSpace)>> >> ELSE <<>>)
    \o << <<"Subject", subject>> >>
    \o (IF Truthy(Get(a.in_reply_to))
        THEN << <<"In-Reply-To", a.in_reply_to.v>>, <<"References", a.in_reply_to.v>> >>
        ELSE <<>>)

\* msg.as_string() on the headers set on the multipart message
WrittenHeaders(headers) ==
    [i \in DOMAIN headers |-> <<headers[i][1], HeaderAsString(headers[i][2])>>]

AttachmentPart(path) ==
    [ctype |-> GuessType(path), filename |-> path, encoding |-> "base64",
     data |-> [file |-> path, bytes |-> FileSize(path)]]

\* create_email_message(args): [ok, msg | err, reads], where reads lists the
\* attachment files whose content was read and encoded
create_email_message(a) ==
    LET subject == encode_email_header(a.subject)
        bad == FirstInvalid(a.to)
        atts == Get(a.attachments)
        Fail(fmt, arg) == [ok |-> FALSE, err |-> Raised("ValueError", fmt, arg),
                           reads |-> <<>>]
    IN  IF bad # 0 THEN Fail("Invalid email address: {addr}", a.to[bad])
        ELSE IF ~Truthy(atts) THEN
            [ok |-> TRUE, reads |-> <<>>,
             msg |-> [kind |-> "plain",
                      headers |-> MessageHeaders(a, subject),
                      body |-> a.body, parts |-> <<>>]]
        ELSE IF atts.tag # "list" THEN
            Fail("'attachments' must be a list of file paths", atts)
        ELSE LET p == FirstBadPath(atts.v)
                 total_bytes == SumSizes(atts.v)
             IN  IF p # 0 /\ FileKind(atts.v[p]) = "missing" THEN
                     Fail("Attachment not found: {path}", atts.v[p])
                 ELSE IF p # 0 THEN
                     Fail("Cannot access attachment: {path}", atts.v[p])
                 ELSE IF OverLimit(total_bytes) THEN
                     Fail("Attachments too large: total {total_bytes} bytes exceeds limit {max_bytes} bytes",
                          <<total_bytes, max_bytes>>)
                 ELSE
                     [ok |-> TRUE, reads |-> atts.v,
                      msg |-> [kind |-> "mixed",
                               headers |-> WrittenHeaders(MessageHeaders(a, subject)),
                               body |-> a.body,
                               parts |-> [i \in 1..Len(atts.v) |-> AttachmentPart(atts.v[i])]]]

\* base64.urlsafe_b64encode(msg.encode("utf-8")).decode().rstrip("=")
RawOf(msg) == [b64url |-> msg]

\* the request send_email and create_draft hand to create_email_message
ComposeRequest(a) ==
    [to |-> a.to, subject |-> a.subject, body |-> a.body,
     cc |-> Get(a.cc), bcc |-> Get(a.bcc), in_reply_to |-> Get(a.in_reply_to),
     attachments |-> Get(a.attachments)]

\* one provider call of the invocation and the status it was answered with
\* (0: success, otherwise the status of the HttpError raised)
Call(api, body, status) == [api |-> api, body |-> body, status |-> status]

HttpError(status) == Raised("HttpError", "HttpError {status}", status)

\* the statuses a failing provider call answers with
FailStatuses == {404, 500}
Responses == {0} \cup FailStatuses      \* 0: the call succeeds

send_email(a) ==
    /\ pc = "idle"
    /\ LET r == create_email_message(ComposeRequest(a))
           payload == IF a.threadid.tag = "absent"
                      THEN [raw |-> RawOf(r.msg)]
                      ELSE [raw |-> RawOf(r.msg), threadId |-> a.threadid]
       IN  /\ reads' = r.reads
           /\ IF ~r.ok
              THEN calls' = <<>> /\ outcome' = r.err
              ELSE IF service = NoneV
              THEN calls' = <<>> /\ outcome' = NoService
              ELSE \E resp \in Responses :
                   /\ calls' = <<Call("messages.send", payload, resp)>>
                   /\ outcome' = IF resp = 0 THEN Returned(<<"Email sent: ", "msg-1">>)
                                 ELSE HttpError(resp)
    /\ pc' = "done"
    /\ tool' = "send_email"
    /\ args' = a
    /\ UNCHANGED <<labels, pending, results>>
    /\ UNCHANGED <<service, loads>>

create_draft(a) ==
    /\ pc = "idle"
    /\ LET r == create_email_message(ComposeRequest(a))
       IN  /\ reads' = r.reads
           /\ IF ~r.ok
              THEN calls' = <<>> /\ outcome' = r.err
              ELSE IF service = NoneV
              THEN calls' = <<>> /\ outcome' = NoService
              ELSE \E resp \in Responses :
                   /\ calls' = <<Call("drafts.create",
                                      [message |-> [raw |-> RawOf(r.msg),
                                                    threadId |-> Get(a.threadid)]],
                                      resp)>>
                   /\ outcome' = IF resp = 0 THEN Returned(<<"Draft created: ", "draft-1">>)
                                 ELSE HttpError(resp)
    /\ pc' = "done"
    /\ tool' = "create_draft"
    /\ args' = a
    /\ UNCHANGED <<labels, pending, results>>
    /\ UNCHANGED <<service, loads>>

\* the result goes back to the client and the server waits for the next request
Return ==
    /\ pc = "done"
    /\ pc' = "idle"
    /\ tool' = "none"
    /\ args' = NoneV
    /\ calls' = <<>>
    /\ outcome' = NoOutcome
    /\ reads' = <<>>
    /\ pending' = {}
    /\ results' = <<>>
    /\ UNCHANGED labels
    /\ UNCHANGED <<service, loads>>

---------------------------------------------------------------------------
(* The requests of the composer specification *)

MaxTo == 2
MaxAttach == 2

GoodAddr == <<"a", "@", "b", ".", "c">>
NoDotAddr == <<"a", "@", "b">>
SpaceAddr == <<" ", "@", "b", ".", "c">>
NewlineAddr == <<"a", "@", "b", ".", "c", "\n">>

ToLists == SeqsUpTo({GoodAddr, NoDotAddr, SpaceAddr, NewlineAddr}, MaxTo)
CcChoices ==
    {Absent, List(<<>>), List(<<NoDotAddr>>), List(<<GoodAddr, NewlineAddr>>)}
BccChoices == {Absent, List(<<GoodAddr>>), List(<<SpaceAddr>>)}
Paths == {"/tmp/a.txt", "/tmp/b.bin", "/tmp/gone.bin", "/tmp/none.txt"}
AttachChoices ==
    {Absent, Str(<<"/", "x">>)} \cup {List(l) : l \in SeqsUpTo(Paths, MaxAttach)}

ComposeArgs ==
    [to : ToLists, subject : {<<"H", "i">>}, body : {"hello"},
     cc : CcChoices, bcc : BccChoices, in_reply_to : {Absent},
     threadid : {Absent, Str("thread-1")}, attachments : AttachChoices]

InitIdle ==
    /\ pc = "idle"
    /\ tool = "none"
    /\ args = NoneV
    /\ calls = <<>>
    /\ outcome = NoOutcome
    /\ reads = <<>>
    /\ pending = {}
    /\ results = <<>>
    /\ service = Client
    /\ loads = 1

InitCompose == InitIdle /\ labels = <<>>

\* a request is accepted only while no invocation is running
Idle == pc = "idle"

NextCompose ==
    \/ Idle /\ \E a \in ComposeArgs : send_email(a)
    \/ Idle /\ \E a \in ComposeArgs : create_draft(a)
    \/ Return

SpecCompose == InitCompose /\ [][NextCompose]_vars

\* requests whose header values hold characters outside ASCII
AccentAddr == <<"U+00E9", "@", "b", ".", "c">>

HeaderArgs ==
    [to : SeqsUpTo({GoodAddr, AccentAddr}, MaxTo),
     subject : {<<"H", "i">>, <<"U+00E9">>, <<"H", "i", " ", "U+65E5", "!">>},
     body : {"hello"},
     cc : {Absent, List(<<AccentAddr>>)},
     bcc : {Absent, List(<<GoodAddr, AccentAddr>>)},
     in_reply_to : {Absent, Str(<<"<", "a", ">">>), Str(<<"a", " ", "U+00E9">>)},
     threadid : {Absent},
     attachments : {Absent, List(<<"/tmp/a.txt">>)}]

NextHeaders ==
    \/ Idle /\ \E a \in HeaderArgs : send_email(a)
    \/ Idle /\ \E a \in HeaderArgs : create_draft(a)
    \/ Return

SpecHeaders == InitCompose /\ [][NextHeaders]_vars

---------------------------------------------------------------------------
(* label_manager.py and the label tools of tools.py *)

UpperLetters == <<"A", "B", "C", "D", "E", "F", "G", "H", "I", "J", "K", "L", "M",
                  "N", "O", "P", "Q", "R", "S", "T", "U", "V", "W", "X", "Y", "Z">>
LowerLetters == <<"a", "b", "c", "d", "e", "f", "g", "h", "i", "j", "k", "l", "m",
                  "n", "o", "p", "q", "r", "s", "t", "u", "v", "w", "x", "y", "z">>

LowerChar(c) ==
    IF \E i \in DOMAIN UpperLetters : UpperLetters[i] = c
    THEN LowerLetters[CHOOSE i \in DOMAIN UpperLetters : UpperLetters[i] = c]
    ELSE c

\* str.lower()
Lower(s) == [i \in DOMAIN s |-> LowerChar(s[i])]

\* no label: find_label_by_name's None
NoLabel == [tag |-> "None"]
Found(l) == [tag |-> "label", id |-> l.id, name |-> l.name, type |-> l.type]

find_label_case_sensitive(listing, label_name) ==
    IF \E i \in DOMAIN listing : listing[i].name = label_name
    THEN Found(listing[CHOOSE i \in DOMAIN listing :
                        /\ listing[i].name = label_name
                        /\ \A j \in 1..(i - 1) : listing[j].name # label_name])
    ELSE NoLabel

\* find_label_by_name over the listing list_labels(service)["all"] returned:
\* the first label whose lowered name equals the lowered query
find_label_by_name(listing, label_name) ==
    IF \E i \in DOMAIN listing : Lower(listing[i].name) = Lower(label_name)
    THEN Found(listing[CHOOSE i \in DOMAIN listing :
                        /\ Lower(listing[i].name) = Lower(label_name)
                        /\ \A j \in 1..(i - 1) :
                              Lower(listing[j].name) # Lower(label_name)])
    ELSE NoLabel

\* labels().list(userId="me"): answered with the provider's listing
ListCall(status) ==
    [api |-> "labels.list", body |-> NoneV, status |-> status,
     listing |-> IF status = 0 THEN labels ELSE <<>>]
\* the provider's copy of label `id` (labels().get(...).execute())
RemoteLabel(id) == labels[CHOOSE i \in DOMAIN labels : labels[i].id = id]

\* labels().get(userId="me", id=label_id) and the label it was answered with
GetCall(id, status) ==
    [api |-> "labels.get", body |-> [id |-> id], status |-> status,
     data |-> IF status = 0 THEN RemoteLabel(id) ELSE NoneV]
UpdateCall(id, updates, status) ==
    Call("labels.update", [id |-> id, body |-> updates], status)
DeleteCall(id, status) == Call("labels.delete", [id |-> id], status)

\* list_labels: an HttpError of the list call becomes a ValueError
ListFailed(status) == Raised("ValueError", "Failed to list labels: {error}", status)

RemoveLabel(id) ==
    LET keep == {i \in DOMAIN labels : labels[i].id # id}
        Nth(k) == CHOOSE i \in keep : Cardinality({j \in keep : j < i}) = k - 1
    IN  [k \in 1..Cardinality(keep) |-> labels[Nth(k)]]

\* the provider applies an update body to label `id`; of the fields it stores
\* the tools read back only id, name and type
PatchLabel(id, updates) ==
    [i \in DOMAIN labels |->
        IF labels[i].id = id /\ "name" \in DOMAIN updates
        THEN [labels[i] EXCEPT !.name = updates["name"].v]
        ELSE labels[i]]

\* the invocation ends: what it left behind
Finish(t, a, c, o, l) ==
    /\ pc' = "done"
    /\ tool' = t
    /\ args' = a
    /\ calls' = c
    /\ outcome' = o
    /\ labels' = l
    /\ UNCHANGED <<reads, pending, results>>
    /\ UNCHANGED <<service, loads>>

\* except HttpError in update_label / delete_label
LabelHttpError(status, label_id, generic) ==
    IF status = 404
    THEN Raised("ValueError", "Label with ID '{label_id}' not found", label_id)
    ELSE Raised("ValueError", generic, status)

NotFoundByName(name) == Raised("ValueError", "Label '{name}' not found", name)

delete_label_unchecked(t, a, before, label_id) ==
    \E rg \in Responses :
        IF rg # 0 THEN
            Finish(t, a, before \o <<GetCall(label_id, rg)>>,
                   LabelHttpError(rg, label_id, "Failed to delete label: {error}"),
                   labels)
        ELSE \E rd \in Responses :
            IF rd # 0 THEN
                Finish(t, a, before \o <<GetCall(label_id, rg), DeleteCall(label_id, rd)>>,
                       LabelHttpError(rd, label_id, "Failed to delete label: {error}"),
                       labels)
            ELSE
                Finish(t, a, before \o <<GetCall(label_id, rg), DeleteCall(label_id, rd)>>,
                       Returned([fmt |-> "Label '{name}' deleted successfully",
                                 name |-> RemoteLabel(label_id).name]),
                       RemoveLabel(label_id))

\* delete_label(service, label_id), after the calls in `before`
delete_label(t, a, before, label_id) ==
    \E rg \in Responses :
        IF rg # 0 THEN
            Finish(t, a, before \o <<GetCall(label_id, rg)>>,
                   LabelHttpError(rg, label_id, "Failed to delete label: {error}"),
                   labels)
        ELSE IF GetCall(label_id, rg).data.type = "system" THEN
            Finish(t, a, before \o <<GetCall(label_id, rg)>>,
                   Raised("ValueError", "Cannot delete system label '{label_id}'", label_id),
                   labels)
        ELSE \E rd \in Responses :
            IF rd # 0 THEN
                Finish(t, a, before \o <<GetCall(label_id, rg), DeleteCall(label_id, rd)>>,
                       LabelHttpError(rd, label_id, "Failed to delete label: {error}"),
                       labels)
            ELSE
                Finish(t, a, before \o <<GetCall(label_id, rg), DeleteCall(label_id, rd)>>,
                       \* the tool returns result["message"]
                       Returned([fmt |-> "Label '{name}' deleted successfully",
                                 name |-> RemoteLabel(label_id).name]),
                       RemoveLabel(label_id))

delete_label_tool(a) ==
    /\ pc = "idle"
    /\ IF a.name.tag = "absent" THEN
           Finish("delete_label_tool", a, <<>>, Raised("KeyError", "'name'", NoneV), labels)
       ELSE IF service = NoneV THEN
           Finish("delete_label_tool", a, <<>>, NoService, labels)
       ELSE \E rl \in Responses :
           IF rl # 0 THEN
               Finish("delete_label_tool", a, <<ListCall(rl)>>, ListFailed(rl), labels)
           ELSE LET label == find_label_by_name(labels, a.name.v)
                IN  IF label.tag = "None" THEN
                        Finish("delete_label_tool", a, <<ListCall(rl)>>,
                               NotFoundByName(a.name.v), labels)
                    ELSE delete_label("delete_label_tool", a, <<ListCall(rl)>>, label.id)

find_label_by_name_tool(a) ==
    /\ pc = "idle"
    /\ IF a.name.tag = "absent" THEN
           Finish("find_label_by_name_tool", a, <<>>,
                  Raised("KeyError", "'name'", NoneV), labels)
       ELSE IF service = NoneV THEN
           Finish("find_label_by_name_tool", a, <<>>, NoService, labels)
       ELSE \E rl \in Responses :
           IF rl # 0 THEN
               Finish("find_label_by_name_tool", a, <<ListCall(rl)>>, ListFailed(rl), labels)
           ELSE LET lbl == find_label_by_name(labels, a.name.v)
                IN  IF lbl.tag = "None" THEN
                        \* lbl.id on None
                        Finish("find_label_by_name_tool", a, <<ListCall(rl)>>,
                               Raised("AttributeError",
                                      "'NoneType' object has no attribute 'id'", NoneV),
                               labels)
                    ELSE Finish("find_label_by_name_tool", a, <<ListCall(rl)>>,
                                Returned([fmt |-> "Label found: {id}: {name}",
                                          id |-> lbl.id, name |-> lbl.name]),
                                labels)

allowed_top_any == {"name", "messageListVisibility", "labelListVisibility", "color", "bogus"}
allowed_top == {"name", "messageListVisibility", "labelListVisibility", "color"}

allowed_backgrounds ==
    {"#ac2b16", "#cc3a21", "#eaa041", "#f2c960", "#16a766", "#43d692",
     "#3c78d8", "#4986e7", "#8e63ce", "#b99aff", "#f691b2", "#e07798",
     "#616161", "#a4c2f4", "#d0bcf1", "#fbc8d9", "#f6c5be", "#e4d7f5",
     "#fad165", "#fef1d1", "#c6f3de", "#a0eac9", "#c9daf8", "#b3efd3"}
allowed_texts == {"#ffffff", "#000000"}

SanitizeColorOneSet(v) ==
    IF "textColor" \in DOMAIN v /\ v["textColor"] \notin allowed_texts THEN
        [ok |-> FALSE,
         err |-> Raised("ValueError", "Invalid textColor: {value}", v["textColor"])]
    ELSE IF "backgroundColor" \in DOMAIN v /\ v["backgroundColor"] \notin allowed_texts THEN
        [ok |-> FALSE,
         err |-> Raised("ValueError", "Invalid backgroundColor: {value}", v["backgroundColor"])]
    ELSE [ok |-> TRUE,
          color_updates |-> [k \in DOMAIN v \cap {"textColor", "backgroundColor"} |-> v[k]]]

\* the body of `if k == "color"` for a color dict v: the first rejected field
\* raises, textColor before backgroundColor
SanitizeColor(v) ==
    IF "textColor" \in DOMAIN v /\ v["textColor"] \notin allowed_texts THEN
        [ok |-> FALSE,
         err |-> Raised("ValueError", "Invalid textColor: {value}", v["textColor"])]
    ELSE IF "backgroundColor" \in DOMAIN v /\ v["backgroundColor"] \notin allowed_backgrounds THEN
        [ok |-> FALSE,
         err |-> Raised("ValueError", "Invalid backgroundColor: {value}", v["backgroundColor"])]
    ELSE [ok |-> TRUE,
          color_updates |-> [k \in DOMAIN v \cap {"textColor", "backgroundColor"} |-> v[k]]]

\* the loop `for k, v in raw_updates.items()` and the emptiness check after it
Sanitize(raw_updates) ==
    LET hasColor == /\ "color" \in DOMAIN raw_updates \cap allowed_top
                    /\ raw_updates["color"].tag = "dict"
        c == SanitizeColor(raw_updates["color"].v)
        plain == (DOMAIN raw_updates \cap allowed_top) \ {"color"}
        keys == plain \cup (IF hasColor /\ DOMAIN c.color_updates # {}
                            THEN {"color"} ELSE {})
        updates == [k \in keys |-> IF k = "color" THEN Dict(c.color_updates)
                                   ELSE raw_updates[k]]
    IN  IF hasColor /\ ~c.ok THEN [ok |-> FALSE, err |-> c.err]
        ELSE IF keys = {} THEN
            [ok |-> FALSE,
             err |-> Raised("ValueError", "No valid update fields provided", NoneV)]
        ELSE [ok |-> TRUE, updates |-> updates]

\* params = args.get("args", args)
Params(a) == IF "args" \in DOMAIN a THEN a.args ELSE a

\* except Exception as e: raise RuntimeError(...)
UpdateFailed(updates, e) ==
    Raised("RuntimeError", "update_label failed. updates={updates!r}, error={e!r}",
           [updates |-> updates, error |-> e])

\* update_label(service, label_id, updates) and the tool's handling of its
\* result, after the calls in `before`
update_label(a, before, label, updates) ==
    \E rg \in Responses :
        IF rg # 0 THEN
            Finish("update_label_tool", a, before \o <<GetCall(label.id, rg)>>,
                   UpdateFailed(updates,
                       LabelHttpError(rg, label.id, "Failed to update label: {error}")),
                   labels)
        ELSE \E ru \in Responses :
            IF ru # 0 THEN
                Finish("update_label_tool", a,
                       before \o <<GetCall(label.id, rg), UpdateCall(label.id, updates, ru)>>,
                       UpdateFailed(updates,
                           LabelHttpError(ru, label.id, "Failed to update label: {error}")),
                       labels)
            ELSE
                LET after == PatchLabel(label.id, updates)
                    updated == after[CHOOSE i \in DOMAIN after : after[i].id = label.id]
                    name_display == IF Len(updated.name) > 0 THEN updated.name
                                    ELSE label.name
                IN  Finish("update_label_tool", a,
                           before \o <<GetCall(label.id, rg), UpdateCall(label.id, updates, ru)>>,
                           Returned([fmt |-> "Label updated: {id}: {name}",
                                     id |-> updated.id, name |-> name_display]),
                           after)

update_label_tool(a) ==
    /\ pc = "idle"
    /\ LET params == Params(a)
           name == Get(params.name)
           raw_updates == Get(params.updates)
       IN  IF ~Truthy(name) THEN
               Finish("update_label_tool", a, <<>>,
                      Raised("ValueError", "Missing required argument: 'name'", NoneV),
                      labels)
           ELSE IF service = NoneV THEN
               Finish("update_label_tool", a, <<>>, NoService, labels)
           ELSE \E rl \in Responses :
               IF rl # 0 THEN
                   Finish("update_label_tool", a, <<ListCall(rl)>>, ListFailed(rl), labels)
               ELSE LET label == find_label_by_name(labels, name.v)
                    IN  IF label.tag = "None" THEN
                            Finish("update_label_tool", a, <<ListCall(rl)>>,
                                   NotFoundByName(name.v), labels)
                        ELSE IF raw_updates.tag # "dict" THEN
                            Finish("update_label_tool", a, <<ListCall(rl)>>,
                                   Raised("ValueError",
                                          "Missing or invalid 'updates' argument", NoneV),
                                   labels)
                        ELSE LET r == Sanitize(raw_updates.v)
                             IN  IF ~r.ok THEN
                                     Finish("update_label_tool", a, <<ListCall(rl)>>,
                                            r.err, labels)
                                 ELSE update_label(a, <<ListCall(rl)>>, label, r.updates)

---------------------------------------------------------------------------
(* The requests and the listings of the label specification *)

MaxLabels == 2

LabelPool ==
    {[id |-> "Label_1", name |-> <<"W", "k">>, type |-> "user"],
     [id |-> "Label_2", name |-> <<"w", "K">>, type |-> "user"],
     [id |-> "INBOX", name |-> <<"W">>, type |-> "system"]}

\* a listing holds each label once
Listings ==
    {l \in SeqsUpTo(LabelPool, MaxLabels) :
        \A i \in DOMAIN l : \A j \in DOMAIN l : i # j => l[i].id # l[j].id}

NameChoices ==
    {Absent, Str(<<>>), Str(<<"w", "k">>), Str(<<"W", "K">>), Str(<<"w">>)}

\* a dict: the keys of the record whose value is not Absent
MkDict(r) == [k \in {x \in DOMAIN r : r[x].tag # "absent"} |-> r[k]]

ColorDicts ==
    {MkDict(c) : c \in [textColor : {Absent, Str("#ffffff"), Str("#123456")},
                        backgroundColor : {Absent, Str("#16a766"), Str("#000000")}]}
ColorChoices ==
    {Absent, Str("red")} \cup {Dict([k \in DOMAIN c |-> c[k].v]) : c \in ColorDicts}

UpdatesChoices ==
    {Absent, Str("name=x")}
    \cup {Dict(MkDict(u)) : u \in [name : {Absent, Str(<<"w">>)},
                                  messageListVisibility : {Absent, Str("hide")},
                                  bogus : {Absent, Str("1")},
                                  color : ColorChoices]}

NameArgs == [name : NameChoices]
UpdateArgs ==
    LET plain == [name : NameChoices, updates : UpdatesChoices]
    IN  plain \cup {[args |-> p] : p \in plain}

InitLabels == InitIdle /\ labels \in Listings

NextLabels ==
    \/ Idle /\ \E a \in UpdateArgs : update_label_tool(a)
    \/ Idle /\ \E a \in NameArgs : delete_label_tool(a)
    \/ Idle /\ \E a \in NameArgs : find_label_by_name_tool(a)
    \/ Return

SpecLabels == InitLabels /\ [][NextLabels]_vars

---------------------------------------------------------------------------
(* read_email: body extraction and HTML pagination *)

IntV(n) == [tag |-> "int", v |-> n]

\* utils.decode_base64url: the text a part's body data encodes;
\* bytes.decode("utf-8") raises on bytes that are not UTF-8
decode_base64url(data) ==
    IF data.utf8 THEN [ok |-> TRUE, text |-> data.b64url]
    ELSE [ok |-> FALSE,
          err |-> Raised("UnicodeDecodeError",
                         "'utf-8' codec can't decode byte {byte}", data.b64url[1])]

RECURSIVE Strip(_)
\* str.strip()
Strip(s) ==
    IF Len(s) = 0 THEN s
    ELSE IF s[1] \in Whitespace THEN Strip(Tail(s))
    ELSE IF s[Len(s)] \in Whitespace THEN Strip(SubSeq(s, 1, Len(s) - 1))
    ELSE s

\* [p.get_text(strip=True) for p in soup.find_all(["p", "div"])] on a document
\* given as the sequence of its (unnested) elements
main_texts(doc) ==
    LET blocks == {i \in DOMAIN doc : doc[i].elem \in {"p", "div"}}
        Nth(k) == CHOOSE i \in blocks : Cardinality({j \in blocks : j < i}) = k - 1
    IN  [k \in 1..Cardinality(blocks) |-> Strip(doc[Nth(k)].text)]

RECURSIVE extract_email_body(_)
RECURSIVE ExtractParts(_)

\* the part's own payload: (text, html)
OwnBody(part) ==
    IF "data" \notin DOMAIN part.body THEN [ok |-> TRUE, text |-> <<>>, html |-> <<>>]
    ELSE LET decoded == decode_base64url(part.body["data"])
             content == decoded.text
         IN  IF ~decoded.ok THEN decoded
             ELSE IF part.mimeType = "text/plain"
                  THEN [ok |-> TRUE, text |-> content, html |-> <<>>]
             ELSE IF part.mimeType = "text/html"
                  THEN [ok |-> TRUE, text |-> <<>>,
                        html |-> Join(main_texts(content), <<"\n">>)]
                  ELSE [ok |-> TRUE, text |-> <<>>, html |-> <<>>]

\* the loop `for sub in part.get("parts", [])`
ExtractParts(subs) ==
    IF Len(subs) = 0 THEN [ok |-> TRUE, text |-> <<>>, html |-> <<>>]
    ELSE LET h == extract_email_body(subs[1])
             t == ExtractParts(Tail(subs))
         IN  IF ~h.ok THEN h
             ELSE IF ~t.ok THEN t
             ELSE [ok |-> TRUE, text |-> h.text \o t.text, html |-> h.html \o t.html]

\* extract_email_body(part): [ok, text, html], or [ok, err] when decoding a
\* payload raised
extract_email_body(part) ==
    LET own == OwnBody(part)
        rest == ExtractParts(part.parts)
    IN  IF ~own.ok THEN own
        ELSE IF ~rest.ok THEN rest
        ELSE [ok |-> TRUE, text |-> own.text \o rest.text,
              html |-> own.html \o rest.html]

PySliceInclusive(s, start, stop) ==
    LET n == Len(s)
        lo == IF start > n THEN n ELSE start
        hi == IF stop + 1 > n THEN n ELSE stop + 1
    IN  IF lo < hi THEN SubSeq(s, lo + 1, hi) ELSE <<>>

\* s[start:stop] for ints
PySlice(s, start, stop) ==
    LET n == Len(s)
        Clamp(i) == IF i < 0 THEN (IF i + n < 0 THEN 0 ELSE i + n)
                    ELSE (IF i > n THEN n ELSE i)
        lo == Clamp(start)
        hi == Clamp(stop)
    IN  IF lo < hi THEN SubSeq(s, lo + 1, hi) ELSE <<>>

DefaultHtmlLimit == 10000

TruncatedAtEnd(html, offset, limit) == Len(html) >= offset + limit
\* truncated = len(html) > offset + limit
Truncated(html, offset, limit) == Len(html) > offset + limit

\* the provider's mailbox: the payload of each message
Leaf(mime, content) ==
    [mimeType |-> mime, body |-> [data |-> [b64url |-> content, utf8 |-> TRUE]],
     parts |-> <<>>]
Multi(mime, subs) == [mimeType |-> mime, body |-> [size |-> 0], parts |-> subs]
Elem(e, t) == [elem |-> e, text |-> t]

LongText == [i \in 1..15000 |-> LowerLetters[(i % 26) + 1]]

Mailbox(id) ==
    CASE id = "m-plain" -> Leaf("text/plain", <<"H", "i">>)
      [] id = "m-nested" ->
            Multi("multipart/mixed",
                  << Leaf("text/plain", <<"H", "e", "l", "l", "o">>),
                     Multi("multipart/related",
                           << Leaf("text/html", << Elem("div", <<"A">>), Elem("p", <<"B">>) >>),
                              Leaf("text/plain", <<" ", "w", "o", "r", "l", "d">>),
                              Leaf("image/png", <<"x">>) >>) >>)
      [] id = "m-alt" ->
            Multi("multipart/alternative",
                  << Leaf("text/plain", <<"a", "b">>),
                     Leaf("text/html", << Elem("p", <<" ", "a", "b">>),
                                          Elem("span", <<"z">>),
                                          Elem("div", <<"c", "d", "\n">>) >>),
                     Leaf("text/html", << Elem("p", <<"e">>) >>) >>)
      [] id = "m-long" -> Leaf("text/html", << Elem("p", LongText) >>)

MessageIds == {"m-plain", "m-nested", "m-alt", "m-long"}

read_email(a) ==
    /\ pc = "idle"
    /\ IF service = NoneV THEN calls' = <<>> /\ outcome' = NoService
       ELSE \E resp \in Responses :
        LET get == Call("messages.get", [id |-> a.messageid, format |-> "full"], resp)
            body == extract_email_body(Mailbox(a.messageid))
            limit == IF a.htmlLimit.tag = "absent" THEN DefaultHtmlLimit ELSE a.htmlLimit.v
            offset == IF a.htmlOffset.tag = "absent" THEN 0 ELSE a.htmlOffset.v
            truncated == Truncated(body.html, offset, limit)
        IN  /\ calls' = <<get>>
            /\ outcome' =
                  IF resp # 0 THEN HttpError(resp)
                  ELSE IF ~body.ok THEN body.err
                  ELSE Returned([text |-> body.text,
                                 html |-> PySlice(body.html, offset, offset + limit),
                                 truncated |-> truncated,
                                 nextOffset |-> IF truncated THEN IntV(offset + limit)
                                                ELSE NoneV])
    /\ pc' = "done"
    /\ tool' = "read_email"
    /\ args' = a
    /\ UNCHANGED <<labels, reads, pending, results>>
    /\ UNCHANGED <<service, loads>>

---------------------------------------------------------------------------
(* The requests of the reader specification *)

MaxOffset == 3
MaxLimit == 3

ReadArgs ==
    [messageid : MessageIds,
     htmlLimit : {Absent} \cup {IntV(n) : n \in -1..MaxLimit},
     htmlOffset : {Absent, IntV(DefaultHtmlLimit)} \cup {IntV(n) : n \in -1..MaxOffset}]

InitRead == InitIdle /\ labels = <<>>

NextRead ==
    \/ Idle /\ \E a \in ReadArgs : read_email(a)
    \/ Return

SpecRead == InitRead /\ [][NextRead]_vars

---------------------------------------------------------------------------
(* A caller paging through the HTML of one message with read_email *)

\* the first request of a walk: offset 0 (given or by default), a limit of at
\* least 1 (given or the default); the long message is read with the default
\* limit only
FirstRequests ==
    {a \in [messageid : MessageIds,
            htmlLimit : {Absent} \cup {IntV(n) : n \in 1..MaxLimit},
            htmlOffset : {Absent, IntV(0)}] :
        a.messageid = "m-long" => a.htmlLimit = Absent}

\* the request the caller sends next: the first one, the same one again after
\* a failure, or the same message and limit at the nextOffset it was given
NextRequests ==
    IF args = NoneV THEN FirstRequests
    ELSE IF Len(results) = 0 THEN {args}
    ELSE IF results[Len(results)].nextOffset = NoneV THEN {}
    ELSE {[args EXCEPT !.htmlOffset = results[Len(results)].nextOffset]}

\* the caller takes the response: a page is kept, a failure is retried
Receive ==
    /\ pc = "done"
    /\ tool = "read_email"
    /\ results' = IF outcome.kind = "return"
                  THEN Append(results,
                              [offset |-> IF args.htmlOffset.tag = "absent" THEN 0
                                          ELSE args.htmlOffset.v,
                               html |-> outcome.value.html,
                               truncated |-> outcome.value.truncated,
                               nextOffset |-> outcome.value.nextOffset])
                  ELSE results
    /\ pc' = "idle"
    /\ calls' = <<>>
    /\ outcome' = NoOutcome
    /\ UNCHANGED <<tool, args, labels, reads, pending, service, loads>>

InitPaging == InitIdle /\ labels = <<>>

NextPaging ==
    \/ Idle /\ \E a \in NextRequests : read_email(a)
    \/ Receive

SpecPaging == InitPaging /\ [][NextPaging]_vars

---------------------------------------------------------------------------
(* extract_email_body over message-part trees *)

MaxNodes == 3

Hello == <<"H", "e", "l", "l", "o">>
World == <<" ", "w", "o", "r", "l", "d">>

\* body data: the base64url text of the UTF-8 bytes of a text, and of bytes
\* that are not UTF-8
TextData(content) == [b64url |-> content, utf8 |-> TRUE]
BinaryData == [b64url |-> <<137, 80, 78, 71>>, utf8 |-> FALSE]

\* what a part is apart from its children
PartKinds ==
    {[mimeType |-> "text/plain", body |-> [data |-> TextData(Hello)]],
     [mimeType |-> "text/plain", body |-> [data |-> TextData(World)]],
     [mimeType |-> "text/plain", body |-> [size |-> 0]],
     [mimeType |-> "text/html", body |-> [data |-> TextData(<<Elem("p", <<"x">>)>>)]],
     [mimeType |-> "multipart/mixed", body |-> [size |-> 0]],
     [mimeType |-> "image/png", body |-> [data |-> BinaryData]]}

Part(kind, subs) == [mimeType |-> kind.mimeType, body |-> kind.body, parts |-> subs]

RECURSIVE PartTrees(_)
RECURSIVE PartLists(_)

\* the trees of exactly n parts
PartTrees(n) ==
    IF n = 0 THEN {}
    ELSE {Part(k, subs) : k \in PartKinds, subs \in PartLists(n - 1)}

\* the lists of trees of n parts in all
PartLists(n) ==
    IF n = 0 THEN {<<>>}
    ELSE UNION {{<<t>> \o rest : t \in PartTrees(i), rest \in PartLists(n - i)} :
                  i \in 1..n}

Payloads == UNION {PartTrees(n) : n \in 1..MaxNodes}

InitExtract ==
    /\ pc = "idle"
    /\ tool = "none"
    /\ args \in {[payload |-> t] : t \in Payloads}
    /\ calls = <<>>
    /\ outcome = NoOutcome
    /\ labels = <<>>
    /\ reads = <<>>
    /\ pending = {}
    /\ results = <<>>
    /\ service = Client
    /\ loads = 1

\* text, html = extract_email_body(msg["payload"])
ExtractBody ==
    /\ pc = "idle"
    /\ LET r == extract_email_body(args.payload)
       IN  outcome' = IF r.ok THEN Returned([text |-> r.text, html |-> r.html])
                      ELSE r.err
    /\ pc' = "done"
    /\ tool' = "extract_email_body"
    /\ UNCHANGED <<args, calls, labels, reads, pending, results>>
    /\ UNCHANGED <<service, loads>>

NextExtract == ExtractBody

SpecExtract == InitExtract /\ [][NextExtract]_vars

---------------------------------------------------------------------------
(* search_emails: the listing and the batched metadata fetch *)

\* the metadata the provider holds for a message (format="metadata")
Header(n, v) == [name |-> n, value |-> v]
Metadata(id) ==
    [id |-> id,
     threadId |-> IF id = "m-plain" THEN NoneV ELSE Str("t-1"),
     payload |-> [headers |->
        CASE id = "m-plain" -> << Header("From", "a@b.c"), Header("Date", "Mon") >>
          [] id = "m-nested" -> << Header("Subject", "old"), Header("From", "x@y.z"),
                                   Header("Subject", "new"), Header("Date", "Tue") >>
          [] OTHER -> << Header("Subject", "s"), Header("From", "f"), Header("Date", "d") >>]]

\* hdrs.get(name, "") on hdrs = {h["name"]: h["value"] for h in headers}
HeaderOr(headers, name) ==
    LET at == {i \in DOMAIN headers : headers[i].name = name}
    IN  IF at = {} THEN ""
        ELSE headers[CHOOSE i \in at : \A j \in at : j <= i].value

collect_keeps_failed(res, response, exception) ==
    LET headers == response.payload.headers
    IN  Append(res, [id |-> response.id,
                     threadId |-> response.threadId,
                     Subject |-> HeaderOr(headers, "Subject"),
                     From |-> HeaderOr(headers, "From"),
                     Date |-> HeaderOr(headers, "Date")])

\* _collect(request_id, response, exception): the `results` list afterwards
collect(res, response, exception) ==
    IF exception # 0 THEN res
    ELSE LET headers == response.payload.headers
         IN  Append(res, [id |-> response.id,
                          threadId |-> response.threadId,
                          Subject |-> HeaderOr(headers, "Subject"),
                          From |-> HeaderOr(headers, "From"),
                          Date |-> HeaderOr(headers, "Date")])

\* list_params
ListParams(a) ==
    MkDict([userId |-> Str("me"),
            maxResults |-> IF a.maxResults.tag = "absent" THEN IntV(10) ELSE a.maxResults,
            q |-> IF Truthy(Get(a.query)) THEN a.query ELSE Absent,
            pageToken |-> IF Truthy(Get(a.pageToken)) THEN a.pageToken ELSE Absent])

\* messages().list(...).execute() and what it was answered with
SearchListCall(a, status, ids, token) ==
    [api |-> "messages.list", body |-> ListParams(a), status |-> status,
     ids |-> ids, nextPageToken |-> token]

\* search_emails up to batch.execute(): the list call, and one metadata request
\* per listed id added to the batch
search_emails(a, ids, token) ==
    /\ pc = "idle"
    /\ tool' = "search_emails"
    /\ args' = a
    /\ results' = <<>>
    /\ UNCHANGED <<labels, reads>>
    /\ UNCHANGED <<service, loads>>
    /\ \E resp \in Responses :
        IF service = NoneV THEN
            /\ calls' = <<>>
            /\ outcome' = NoService
            /\ pending' = {}
            /\ pc' = "done"
        ELSE IF resp # 0 THEN
            /\ calls' = <<SearchListCall(a, resp, <<>>, NoneV)>>
            /\ outcome' = HttpError(resp)
            /\ pending' = {}
            /\ pc' = "done"
        ELSE IF Len(ids) = 0 THEN
            /\ calls' = <<SearchListCall(a, 0, ids, token)>>
            /\ outcome' = Returned([messages |-> <<>>, nextPageToken |-> token])
            /\ pending' = {}
            /\ pc' = "done"
        ELSE
            /\ calls' = <<SearchListCall(a, 0, ids, token)>>
            /\ outcome' = NoOutcome
            /\ pending' = {ids[i] : i \in DOMAIN ids}
            /\ pc' = "batch"

\* batch.execute() fails as a whole: no callback runs, the error propagates
BatchFails(status) ==
    /\ pc = "batch"
    /\ Len(calls) = 1
    /\ calls' = Append(calls, Call("batch.execute", NoneV, status))
    /\ outcome' = HttpError(status)
    /\ pending' = {}
    /\ pc' = "done"
    /\ UNCHANGED <<tool, args, labels, reads, results>>
    /\ UNCHANGED <<service, loads>>

\* the batch delivers the answer for one of its requests to the callback
Collect(id, exception) ==
    /\ pc = "batch"
    /\ id \in pending
    /\ results' = collect(results, Metadata(id), exception)
    /\ pending' = pending \ {id}
    /\ calls' = Append(calls, Call("batch.item", [id |-> id, format |-> "metadata"],
                                   exception))
    /\ UNCHANGED <<pc, tool, args, outcome, labels, reads>>
    /\ UNCHANGED <<service, loads>>

\* batch.execute() is over: return {"messages": results, "nextPageToken": ...}
SearchReturn ==
    /\ pc = "batch"
    /\ pending = {}
    /\ outcome' = Returned([messages |-> results,
                            nextPageToken |-> calls[1].nextPageToken])
    /\ pc' = "done"
    /\ UNCHANGED <<tool, args, calls, labels, reads, pending, results>>
    /\ UNCHANGED <<service, loads>>

---------------------------------------------------------------------------
(* The requests and listings of the search specification *)

MaxIds == 3

IdLists ==
    {l \in SeqsUpTo(MessageIds, MaxIds) :
        \A i \in DOMAIN l : \A j \in DOMAIN l : i # j => l[i] # l[j]}

SearchArgs ==
    [query : {Absent, Str("is:unread")}, maxResults : {Absent},
     pageToken : {Absent, Str("page-2")}]

InitSearch == InitIdle /\ labels = <<>>

NextSearch ==
    \/ Idle /\ \E a \in SearchArgs : \E ids \in IdLists :
                \E token \in {NoneV, Str("page-3")} : search_emails(a, ids, token)
    \/ \E status \in FailStatuses : BatchFails(status)
    \/ \E id \in pending : \E exception \in Responses : Collect(id, exception)
    \/ SearchReturn
    \/ Return

SpecSearch == InitSearch /\ [][NextSearch]_vars

---------------------------------------------------------------------------
(* The address pattern ^[^\s@]+@[^\s@]+\.[^\s@]+$ read as an automaton:     *)
(* 0 start, 1 in the local part, 2 after "@", 3 in the domain, 4 after the *)
(* separating ".", 5 in the last label (accepting).                        *)

PatternStep(S, c) ==
    LET plain == c \notin {" ", "\t", "\n", "\r", "@"}
    IN  {q \in 0..5 :
            \/ q = 1 /\ plain /\ S \cap {0, 1} # {}
            \/ q = 2 /\ c = "@" /\ 1 \in S
            \/ q = 3 /\ plain /\ S \cap {2, 3} # {}
            \/ q = 4 /\ c = "." /\ 3 \in S
            \/ q = 5 /\ plain /\ S \cap {4, 5} # {}}

RECURSIVE PatternRun(_, _, _)
PatternRun(s, n, S) ==
    IF n = 0 THEN S ELSE PatternStep(PatternRun(s, n - 1, S), s[n])

MatchesPattern(s) ==
    \/ 5 \in PatternRun(s, Len(s), {0})
    \/ Len(s) > 0 /\ s[Len(s)] = "\n" /\ 5 \in PatternRun(s, Len(s) - 1, {0})

ComposeDone == pc = "done" /\ tool \in {"send_email", "create_draft"}

AddressError == outcome.kind = "raise" /\ outcome.fmt = "Invalid email address: {addr}"
SizeError ==
    /\ outcome.kind = "raise"
    /\ outcome.fmt = "Attachments too large: total {total_bytes} bytes exceeds limit {max_bytes} bytes"

\* C1: a request whose `to` list holds an address that does not match the
\* pattern fails with the invalid-address error naming the first such address
\* in list order; no message is built, and send_email / create_draft issue no
\* provider call.
C1_InvalidToFails ==
    (ComposeDone /\ \E i \in DOMAIN args.to : ~MatchesPattern(args.to[i])) =>
        LET first == CHOOSE i \in DOMAIN args.to :
                        /\ ~MatchesPattern(args.to[i])
                        /\ \A j \in 1..(i - 1) : MatchesPattern(args.to[j])
        IN  /\ AddressError
            /\ outcome.exc = "ValueError"
            /\ outcome.arg = args.to[first]
            /\ calls = <<>>
            /\ reads = <<>>

C1_Witness ==
    /\ ComposeDone
    /\ tool = "send_email"
    /\ args.to = <<SpaceAddr, NoDotAddr>>
    /\ AddressError
    /\ outcome.arg = SpaceAddr
    /\ calls = <<>>

\* C2: whenever create_email_message returns a message (so that the tool goes
\* on to its provider call), every address in `to`, and in `cc` and `bcc`
\* when supplied, matches the pattern.
C2_AllRecipientsValid ==
    (ComposeDone /\ calls # <<>>) =>
        /\ \A i \in DOMAIN args.to : MatchesPattern(args.to[i])
        /\ args.cc.tag = "list" => \A i \in DOMAIN args.cc.v : MatchesPattern(args.cc.v[i])
        /\ args.bcc.tag = "list" => \A i \in DOMAIN args.bcc.v : MatchesPattern(args.bcc.v[i])

\* C4: for a non-empty attachment list of existing regular files (on a request
\* that passes address validation), construction fails with the size-limit
\* error, carrying the computed total and the limit 25165824, exactly when the
\* sizes sum to more than 25165824 bytes; the error is raised before any
\* attachment is read.
C4_SizeLimit ==
    (/\ ComposeDone
     /\ \A i \in DOMAIN args.to : MatchesPattern(args.to[i])
     /\ args.attachments.tag = "list"
     /\ args.attachments.v # <<>>
     /\ \A i \in DOMAIN args.attachments.v : FileKind(args.attachments.v[i]) = "file") =>
        LET total == SumSizes(args.attachments.v)
        IN  /\ SizeError <=> total > 25165824
            /\ SizeError => /\ outcome.arg = <<total, 25165824>>
                            /\ reads = <<>>
                            /\ calls = <<>>
            /\ ~SizeError => calls # <<>> /\ reads = args.attachments.v

\* a total of exactly 25165824 bytes is accepted
C4_Witness ==
    /\ ComposeDone
    /\ args.attachments.tag = "list"
    /\ args.attachments.v = <<"/tmp/a.txt", "/tmp/a.txt">>
    /\ SumSizes(args.attachments.v) = 25165824
    /\ outcome.kind = "return"
    /\ reads = args.attachments.v

---------------------------------------------------------------------------
(* Label tools: what the invocation saw and did *)

LabelTools == {"update_label_tool", "delete_label_tool", "find_label_by_name_tool"}
LabelDone == pc = "done" /\ tool \in LabelTools

\* the listing call went out and was answered
Listed == Len(calls) >= 1 /\ calls[1].api = "labels.list" /\ calls[1].status = 0
SeenListing == calls[1].listing
AskedName == Get(Params(args).name)

\* two names are equal up to the case of their letters
SameLetter(c, d) ==
    \/ c = d
    \/ \E k \in DOMAIN UpperLetters :
          {c, d} = {UpperLetters[k], LowerLetters[k]}
EqualIgnoringCase(s, t) ==
    Len(s) = Len(t) /\ \A i \in DOMAIN s : SameLetter(s[i], t[i])

Matching(listing, q) == {i \in DOMAIN listing : EqualIgnoringCase(listing[i].name, q)}
FirstMatching(listing, q) ==
    CHOOSE i \in Matching(listing, q) : \A j \in Matching(listing, q) : i <= j

IssuedApis == {calls[i].api : i \in DOMAIN calls}

ValidationFormats ==
    {"Invalid email address: {addr}",
     "'attachments' must be a list of file paths",
     "Attachment not found: {path}",
     "Cannot access attachment: {path}",
     "Attachments too large: total {total_bytes} bytes exceeds limit {max_bytes} bytes",
     "Missing required argument: 'name'",
     "Missing or invalid 'updates' argument",
     "Invalid textColor: {value}",
     "Invalid backgroundColor: {value}",
     "No valid update fields provided"}

\* C3: an invocation that ends in a validation error (bad address, bad color,
\* missing name or updates, oversized or missing attachment) has issued no
\* call to the mail provider.
C3_ValidationBeforeNetwork ==
    (pc = "done" /\ outcome.kind = "raise" /\ outcome.fmt \in ValidationFormats) =>
        calls = <<>>

\* the update stage of update_label_tool is reached: the name is given, the
\* listing answered, the label found and `updates` is a map
FilterReached ==
    /\ pc = "done"
    /\ tool = "update_label_tool"
    /\ Truthy(AskedName)
    /\ Listed
    /\ Matching(SeenListing, AskedName.v) # {}
    /\ Get(Params(args).updates).tag = "dict"

RawUpdates == Params(args).updates.v
ColorMap == RawUpdates["color"].v
HasColorMap == "color" \in DOMAIN RawUpdates /\ RawUpdates["color"].tag = "dict"
ColorFields == DOMAIN ColorMap \cap {"textColor", "backgroundColor"}
TextRejected ==
    "textColor" \in DOMAIN ColorMap /\ ColorMap["textColor"] \notin {"#ffffff", "#000000"}
BackgroundRejected ==
    /\ "backgroundColor" \in DOMAIN ColorMap
    /\ \/ ColorMap["backgroundColor"] \notin allowed_backgrounds
       \/ ColorMap["backgroundColor"] = "#000000"
ColorRejected == HasColorMap /\ (TextRejected \/ BackgroundRejected)

\* the recognized fields of the raw updates that survive filtering
Surviving ==
    (DOMAIN RawUpdates \cap {"name", "messageListVisibility", "labelListVisibility"})
    \cup (IF HasColorMap /\ ColorFields # {} THEN {"color"} ELSE {})

\* the sanitized updates handed to update_label, as the update call or the
\* tool's failure report carries them
UpdateAttempted == Len(calls) >= 2 /\ calls[2].api = "labels.get"
SentUpdates ==
    IF outcome.kind = "raise" THEN outcome.arg.updates ELSE calls[3].body.body

\* C6: once update_label_tool filters an updates map, what it hands to the
\* remote update holds only keys of {name, messageListVisibility,
\* labelListVisibility, color} (other keys are dropped without error), and it
\* is never empty: when no recognized field survives, the tool fails with the
\* no-valid-fields error and issues neither a label get nor an update.
C6_OnlyRecognizedFieldsSent ==
    /\ \A i \in DOMAIN calls : calls[i].api = "labels.update" =>
          /\ DOMAIN calls[i].body.body # {}
          /\ DOMAIN calls[i].body.body \subseteq
                {"name", "messageListVisibility", "labelListVisibility", "color"}
    /\ (FilterReached /\ ~ColorRejected /\ Surviving # {}) =>
          /\ UpdateAttempted
          /\ DOMAIN SentUpdates = Surviving
          /\ \A k \in Surviving \ {"color"} : SentUpdates[k] = RawUpdates[k]
    /\ (FilterReached /\ ~ColorRejected /\ Surviving = {}) =>
          /\ outcome.kind = "raise"
          /\ outcome.exc = "ValueError"
          /\ outcome.fmt = "No valid update fields provided"
          /\ IssuedApis = {"labels.list"}

\* an unknown key is dropped and the rest is sent
C6_Witness ==
    /\ FilterReached
    /\ "bogus" \in DOMAIN RawUpdates
    /\ Len(calls) = 3
    /\ calls[3].api = "labels.update"
    /\ calls[3].status = 0
    /\ DOMAIN calls[3].body.body = {"messageListVisibility"}

\* C7: when the color map carries a textColor outside {#ffffff, #000000} or a
\* backgroundColor outside the 24-entry palette (such as #000000), the tool
\* aborts with a ValueError naming the rejected field and value and issues no
\* get or update call, whatever else the updates hold; when every present
\* color field is allowed, the sanitized updates hold a color object with
\* exactly the present fields.
C7_ColorValidation ==
    /\ Cardinality(allowed_backgrounds) = 24
    /\ (FilterReached /\ ColorRejected) =>
          /\ outcome.kind = "raise"
          /\ outcome.exc = "ValueError"
          /\ \/ /\ outcome.fmt = "Invalid textColor: {value}"
                /\ TextRejected
                /\ outcome.arg = ColorMap["textColor"]
             \/ /\ outcome.fmt = "Invalid backgroundColor: {value}"
                /\ BackgroundRejected
                /\ outcome.arg = ColorMap["backgroundColor"]
          /\ IssuedApis = {"labels.list"}
    /\ (FilterReached /\ HasColorMap /\ ~ColorRejected /\ ColorFields # {}) =>
          /\ UpdateAttempted
          /\ "color" \in DOMAIN SentUpdates
          /\ SentUpdates["color"].tag = "dict"
          /\ DOMAIN SentUpdates["color"].v = ColorFields
          /\ \A f \in ColorFields : SentUpdates["color"].v[f] = ColorMap[f]

\* backgroundColor "#000000" is rejected although the text color is valid
C7_Witness ==
    /\ FilterReached
    /\ HasColorMap
    /\ DOMAIN ColorMap = {"textColor", "backgroundColor"}
    /\ ColorMap["textColor"] = "#ffffff"
    /\ ColorMap["backgroundColor"] = "#000000"
    /\ "name" \in DOMAIN RawUpdates
    /\ outcome.kind = "raise"
    /\ outcome.fmt = "Invalid backgroundColor: {value}"

\* C8: find_label_by_name returns a label exactly when the listing holds a
\* label whose name equals the query up to letter case, and then the first
\* such label in listing order; otherwise None.  A name that merely contains
\* the query does not match.
C8_FindByNameIgnoresCase ==
    (LabelDone /\ Listed /\ AskedName.tag = "str") =>
        LET q == AskedName.v
            found == find_label_by_name(SeenListing, q)
        IN  /\ found.tag = "label" <=> Matching(SeenListing, q) # {}
            /\ found.tag = "label" =>
                  /\ found.id = SeenListing[FirstMatching(SeenListing, q)].id
                  /\ found.name = SeenListing[FirstMatching(SeenListing, q)].name
            /\ tool = "find_label_by_name_tool" =>
                  /\ outcome.kind = "return" <=> Matching(SeenListing, q) # {}
                  /\ outcome.kind = "return" =>
                        outcome.value.id = SeenListing[FirstMatching(SeenListing, q)].id

\* "WK" finds the label listed first among those named wK and Wk
C8_Witness ==
    /\ LabelDone
    /\ tool = "find_label_by_name_tool"
    /\ Listed
    /\ Len(SeenListing) = 2
    /\ SeenListing[1].name = <<"w", "K">>
    /\ SeenListing[2].name = <<"W", "k">>
    /\ AskedName = Str(<<"W", "K">>)
    /\ outcome.kind = "return"
    /\ outcome.value.id = SeenListing[1].id

\* C9: a tool that resolves a label by name and finds no match in the listing
\* fails with the not-found error naming the requested name, after the
\* listing call and without any get, update or delete call.
C9_NotFoundNamesTheName ==
    (LabelDone /\ Listed /\ AskedName.tag = "str"
        /\ Matching(SeenListing, AskedName.v) = {}) =>
        /\ outcome.kind = "raise"
        /\ outcome.fmt = "Label '{name}' not found"
        /\ outcome.arg = AskedName.v
        /\ IssuedApis = {"labels.list"}

---------------------------------------------------------------------------
(* read_email: the window returned *)

ReadReturned == pc = "done" /\ tool = "read_email" /\ outcome.kind = "return"
AskedOffset == IF args.htmlOffset.tag = "absent" THEN 0 ELSE args.htmlOffset.v
AskedLimit == IF args.htmlLimit.tag = "absent" THEN 10000 ELSE args.htmlLimit.v
Accumulator == extract_email_body(Mailbox(args.messageid)).html

\* the characters of H at positions offset .. offset+limit-1 (counted from 0)
Window(H, offset, limit) ==
    LET from == IF offset < Len(H) THEN offset ELSE Len(H)
        to == IF offset + limit < Len(H) THEN offset + limit ELSE Len(H)
    IN  [i \in 1..(to - from) |-> H[from + i]]

\* C5: for non-negative offset and limit (defaults 0 and 10000) read_email
\* returns html = H[offset, offset+limit) of the extracted HTML accumulator H,
\* truncated = (len(H) > offset+limit), and nextOffset = offset+limit when
\* truncated, null otherwise.
C5_HtmlWindow ==
    (ReadReturned /\ AskedOffset >= 0 /\ AskedLimit >= 0) =>
        /\ outcome.value.html = Window(Accumulator, AskedOffset, AskedLimit)
        /\ outcome.value.truncated <=> Len(Accumulator) > AskedOffset + AskedLimit
        /\ outcome.value.truncated =>
              outcome.value.nextOffset = IntV(AskedOffset + AskedLimit)
        /\ ~outcome.value.truncated => outcome.value.nextOffset = NoneV

\* 15000 characters of HTML read with the defaults: the first 10000 come back,
\* truncated, with nextOffset 10000
C5_Witness ==
    /\ ReadReturned
    /\ args.htmlOffset = Absent
    /\ args.htmlLimit = Absent
    /\ Len(Accumulator) = 15000
    /\ Len(outcome.value.html) = 10000
    /\ outcome.value.truncated
    /\ outcome.value.nextOffset = IntV(10000)

---------------------------------------------------------------------------
(* search_emails: what the batch leaves in the result *)

\* the search ran its batch to the end (the list call answered, and
\* batch.execute() did not fail as a whole)
SearchCompleted ==
    /\ pc = "done"
    /\ tool = "search_emails"
    /\ calls[1].status = 0
    /\ \A i \in DOMAIN calls : calls[i].api # "batch.execute"

ListedIds == {calls[1].ids[i] : i \in DOMAIN calls[1].ids}
ItemCalls == {i \in DOMAIN calls : calls[i].api = "batch.item"}
Fetched == {calls[i].body.id : i \in {j \in ItemCalls : calls[j].status = 0}}
FailedIds == {calls[i].body.id : i \in {j \in ItemCalls : calls[j].status # 0}}

\* C10: whatever subset of the listed ids fails inside the batch, and in
\* whatever order the callbacks run, search_emails returns normally; its
\* `messages` hold exactly one entry for each id fetched successfully and none
\* for a failed id, and nextPageToken is the list call's token.
C10_BatchFailuresSkipped ==
    SearchCompleted =>
        /\ outcome.kind = "return"
        /\ Fetched \cup FailedIds = ListedIds
        /\ \A id \in ListedIds :
              Cardinality({k \in DOMAIN outcome.value.messages :
                              outcome.value.messages[k].id = id})
                 = (IF id \in Fetched THEN 1 ELSE 0)
        /\ Len(outcome.value.messages) = Cardinality(Fetched)
        /\ outcome.value.nextPageToken = calls[1].nextPageToken

\* three ids listed; the callbacks run out of listing order, one fetch fails
C10_Witness ==
    /\ SearchCompleted
    /\ calls[1].ids = <<"m-plain", "m-nested", "m-alt">>
    /\ Len(calls) = 4
    /\ calls[2].body.id = "m-alt"
    /\ calls[2].status = 0
    /\ calls[3].body.id = "m-plain"
    /\ calls[3].status = 404
    /\ calls[4].body.id = "m-nested"
    /\ Len(outcome.value.messages) = 2
    /\ outcome.value.messages[2].Subject = "new"

---------------------------------------------------------------------------
(* How a refused get, update or delete call is surfaced by the label tools *)

LabelCallApis == {"labels.get", "labels.update", "labels.delete"}
MutatingTools == {"update_label_tool", "delete_label_tool"}
LastCall == calls[Len(calls)]

\* the invocation ended on a get, update or delete call answered with `status`
RefusedLabelCall(status) ==
    /\ pc = "done"
    /\ tool \in MutatingTools
    /\ Len(calls) >= 1
    /\ LastCall.api \in LabelCallApis
    /\ LastCall.status = status

NotFoundById ==
    /\ outcome.kind = "raise"
    /\ outcome.fmt = "Label with ID '{label_id}' not found"
    /\ outcome.arg = LastCall.body.id

GenericRemoteFailure ==
    /\ outcome.kind = "raise"
    /\ outcome.fmt \in {"Failed to update label: {error}",
                        "Failed to delete label: {error}"}
    /\ outcome.arg = LastCall.status

\* C11: when the provider answers 404 to the get, update or delete call of
\* update_label_tool or delete_label_tool, the error the tool raises is the
\* not-found error naming the label id; when it answers with another failure
\* status the error is the generic failure carrying the remote error; the two
\* are never exchanged.
C11_RemoteFailureKinds ==
    /\ RefusedLabelCall(404) => NotFoundById /\ ~GenericRemoteFailure
    /\ \A s \in FailStatuses \ {404} :
          RefusedLabelCall(s) => GenericRemoteFailure /\ ~NotFoundById

---------------------------------------------------------------------------
(* The header values of a composed message *)

\* the invocation built a message and handed it to the provider
Composed == ComposeDone /\ Len(calls) = 1
SentMessage ==
    IF tool = "send_email" THEN calls[1].body.raw.b64url
    ELSE calls[1].body.message.raw.b64url

\* the value the request gave for a header
GivenValue(name) ==
    CASE name = "From" -> <<"m", "e">>
      [] name = "To" -> Join(args.to, CommaSpace)
      [] name = "Cc" -> Join(args.cc.v, CommaSpace)
      [] name = "Bcc" -> Join(args.bcc.v, CommaSpace)
      [] name = "Subject" -> args.subject
      [] OTHER -> args.in_reply_to.v

Rfc2047(value) ==
    <<"=", "?", "U", "T", "F", "-", "8", "?", "b", "?">>
    \o b64encode(Utf8Bytes(value)) \o <<"?", "=">>

\* C12: in every message create_email_message returns, no header value holds
\* a character outside ASCII: a header whose given value holds such a
\* character is emitted as =?UTF-8?b?<base64 of its UTF-8 bytes>?=, and a
\* header whose given value is ASCII only is emitted unchanged.
C12_HeadersEncoded ==
    Composed =>
        \A i \in DOMAIN SentMessage.headers :
            LET value == SentMessage.headers[i][2]
                given == GivenValue(SentMessage.headers[i][1])
            IN  /\ ~HasNonAscii(value)
                /\ value = (IF HasNonAscii(given) THEN Rfc2047(given) ELSE given)

---------------------------------------------------------------------------
(* Startup: the two entry points main.py and the server module *)

\* src/main.py runs init_gmail_credentials() under asyncio.run;
\* src/src/main.py calls it as a plain function
EntryPoints == {"src/main.py", "src/src/main.py"}

InitStartup ==
    /\ pc = "main"
    /\ tool = "none"
    /\ args \in {[entry |-> e] : e \in EntryPoints}
    /\ calls = <<>>
    /\ outcome = NoOutcome
    /\ labels = <<>>
    /\ reads = <<>>
    /\ pending = {}
    /\ results = <<>>
    /\ service = NoneV
    /\ loads = 0

\* asyncio.run(init_gmail_credentials()): the coroutine runs. It calls
\* load_credentials, a plain function that sets `service` and returns None
\* (or raises when the credentials cannot be obtained), and then awaits the
\* value returned, which raises TypeError; main ends there
RunInitCredentials ==
    /\ pc = "main"
    /\ args.entry = "src/main.py"
    /\ \E acquired \in BOOLEAN :
          IF acquired
          THEN /\ service' = Client
               /\ loads' = loads + 1
               /\ outcome' = Raised("TypeError",
                                    "object NoneType can't be used in 'await' expression",
                                    NoneV)
          ELSE /\ UNCHANGED <<service, loads>>
               /\ outcome' = Raised("Exception", "load_credentials failed", NoneV)
    /\ pc' = "crashed"
    /\ UNCHANGED <<tool, args, calls, labels, reads, pending, results>>

\* init_gmail_credentials() called without await: the coroutine object is
\* created and dropped, its body never runs
DropInitCredentials ==
    /\ pc = "main"
    /\ args.entry = "src/src/main.py"
    /\ pc' = "after_init"
    /\ UNCHANGED <<tool, args, calls, outcome, labels, reads, pending, results,
                   service, loads>>

\* server = create_server(): the tools are registered
create_server ==
    /\ pc = "after_init"
    /\ pc' = "created"
    /\ UNCHANGED <<tool, args, calls, outcome, labels, reads, pending, results,
                   service, loads>>

\* server.run(transport="stdio"): the server accepts tool invocations
server_run ==
    /\ pc = "created"
    /\ pc' = "idle"
    /\ UNCHANGED <<tool, args, calls, outcome, labels, reads, pending, results,
                   service, loads>>

NextStartup ==
    \/ RunInitCredentials
    \/ DropInitCredentials
    \/ create_server
    \/ server_run
    \/ Idle /\ \E a \in HeaderArgs : send_email(a)
    \/ Idle /\ \E a \in ReadArgs : read_email(a)
    \/ Return

SpecStartup == InitStartup /\ [][NextStartup]_vars

---------------------------------------------------------------------------
(* The text extract_email_body returns for a tree *)

RECURSIVE PreOrder(_)
RECURSIVE PreOrderAll(_)

\* the parts of a tree: a part, then the parts of its children in list order
PreOrder(part) == <<part>> \o PreOrderAll(part.parts)
PreOrderAll(subs) ==
    IF Len(subs) = 0 THEN <<>> ELSE PreOrder(subs[1]) \o PreOrderAll(Tail(subs))

HasPayload(part) == "data" \in DOMAIN part.body
PlainWithPayload(part) == HasPayload(part) /\ part.mimeType = "text/plain"

RECURSIVE PlainTexts(_)
\* the texts of the text/plain parts with a payload, concatenated in order
PlainTexts(listed) ==
    IF Len(listed) = 0 THEN <<>>
    ELSE (IF PlainWithPayload(listed[1]) THEN listed[1].body["data"].b64url ELSE <<>>)
         \o PlainTexts(Tail(listed))

Extracted == pc = "done" /\ tool = "extract_email_body"

\* C13: for every message-part tree extract_email_body returns, as text, the
\* decoded payloads of exactly the text/plain parts that carry a payload,
\* concatenated in depth-first pre-order; parts of any other type and parts
\* without a payload contribute nothing, and the tree is left as it was.
C13_TextIsPreOrderConcatenation ==
    Extracted =>
        /\ outcome.kind = "return"
        /\ outcome.value.text = PlainTexts(PreOrder(args.payload))
        /\ args.payload \in Payloads

\* every payload of the tree decodes as UTF-8
AllDecodable == \A i \in DOMAIN PreOrder(args.payload) :
    HasPayload(PreOrder(args.payload)[i]) => PreOrder(args.payload)[i].body["data"].utf8

\* on trees whose payloads all decode, the text is the pre-order concatenation
TextOfDecodableTrees ==
    (Extracted /\ AllDecodable) =>
        /\ outcome.kind = "return"
        /\ outcome.value.text = PlainTexts(PreOrder(args.payload))

\* "Hello" and " world" at different depths give "Hello world"
HelloWorld ==
    /\ Extracted
    /\ args.payload =
          Part([mimeType |-> "multipart/mixed", body |-> [size |-> 0]],
               << Part([mimeType |-> "text/plain", body |-> [data |-> TextData(Hello)]],
                       << Part([mimeType |-> "text/plain",
                                body |-> [data |-> TextData(World)]], <<>>) >>) >>)
    /\ outcome.value.text = Hello \o World

---------------------------------------------------------------------------
(* Credentials before tools *)

\* create_server has returned: the tools are registered
Registered == pc \in {"created", "idle", "done"}
\* server.run is serving: a tool can be invoked
Serving == pc \in {"idle", "done"}

\* C14: on both entry points load_credentials has run to completion exactly
\* once before any tool is registered and before the server serves, so that
\* whenever a tool can be invoked `service` is not None.
C14_CredentialsBeforeTools ==
    /\ Registered => loads = 1
    /\ Serving => service # NoneV

---------------------------------------------------------------------------
(* Paging through the HTML with nextOffset *)

\* the walk in progress: message, limit, accumulator and the pages received
Walking == args # NoneV /\ pc \in {"idle", "done"} /\ tool \in {"none", "read_email"}
WalkLimit == IF args.htmlLimit.tag = "absent" THEN 10000 ELSE args.htmlLimit.v
WalkHtml == extract_email_body(Mailbox(args.messageid)).html

RECURSIVE Chunks(_)
\* the html chunks of the pages, concatenated in call order
Chunks(pages) ==
    IF Len(pages) = 0 THEN <<>> ELSE pages[1].html \o Chunks(Tail(pages))

\* the number of calls a text of n characters takes with a given limit
CallsNeeded(n, limit) == IF n = 0 THEN 1 ELSE (n + limit - 1) \div limit

WalkFinished == Len(results) >= 1 /\ ~results[Len(results)].truncated

\* C15: for an unchanged message and a fixed limit >= 1, a caller that starts
\* at offset 0 and re-requests at the returned nextOffset sees strictly
\* increasing offsets, gets truncated = false and nextOffset = null after a
\* bounded number of calls (ceil(len(H) / limit), one for an empty H), and the
\* chunks received, concatenated in call order, are H with no character lost
\* or repeated.
C15_PagingCoversHtml ==
    Walking =>
        LET n == Len(results)
            H == WalkHtml
        IN  /\ n >= 1 => results[1].offset = 0
            /\ \A k \in 2..n : results[k].offset > results[k - 1].offset
            /\ \A k \in 1..(n - 1) :
                  /\ results[k].truncated
                  /\ results[k + 1].offset = results[k].nextOffset.v
            /\ n <= CallsNeeded(Len(H), WalkLimit)
            /\ Len(Chunks(results)) <= Len(H)
            /\ Chunks(results) = SubSeq(H, 1, Len(Chunks(results)))
            /\ n = CallsNeeded(Len(H), WalkLimit) => WalkFinished
            /\ WalkFinished =>
                  /\ results[n].nextOffset = NoneV
                  /\ Chunks(results) = H

\* six characters of HTML read two at a time: three pages, the last one not
\* truncated
C15_Witness ==
    /\ Walking
    /\ args.messageid = "m-alt"
    /\ WalkLimit = 2
    /\ Len(results) = 3
    /\ WalkFinished
    /\ Len(Chunks(results)) = 6
    /\ results[3].offset = 4

---------------------------------------------------------------------------
(* Deleting a label: system labels are never deleted *)

DeleteDone == pc = "done" /\ tool = "delete_label_tool"
DeleteCalls == {i \in DOMAIN calls : calls[i].api = "labels.delete"}
GetCalls == {i \in DOMAIN calls : calls[i].api = "labels.get"}

\* the get call answered with a label of type system
FetchedSystem ==
    \E i \in GetCalls : calls[i].status = 0 /\ calls[i].data.type = "system"

DeletedMessage ==
    /\ outcome.kind = "return"
    /\ outcome.value.fmt = "Label '{name}' deleted successfully"

\* C16: delete_label_tool issues labels.delete only directly after a
\* successful labels.get of the same label that answered a type other than
\* system; when the fetched type is system it fails with the
\* cannot-delete-system-label error naming the label, issues no delete call
\* and the label stays in the listing; the success message naming the label
\* is returned only after such a get and a successful delete.
C16_SystemLabelsKept ==
    DeleteDone =>
        /\ \A i \in DeleteCalls :
              /\ i - 1 \in GetCalls
              /\ calls[i - 1].status = 0
              /\ calls[i - 1].body.id = calls[i].body.id
              /\ calls[i - 1].data.type # "system"
        /\ FetchedSystem =>
              /\ DeleteCalls = {}
              /\ outcome.kind = "raise"
              /\ outcome.fmt = "Cannot delete system label '{label_id}'"
              /\ outcome.arg = calls[Len(calls)].body.id
              /\ labels = SeenListing
        /\ DeletedMessage =>
              /\ \E i \in DeleteCalls :
                    /\ calls[i].status = 0
                    /\ outcome.value.name = calls[i - 1].data.name
                    /\ \A k \in DOMAIN labels : labels[k].id # calls[i].body.id
              /\ ~FetchedSystem

\* the name resolves to the system label INBOX: fetched, refused, still listed
C16_Witness ==
    /\ DeleteDone
    /\ FetchedSystem
    /\ Len(calls) = 2
    /\ calls[2].body.id = "INBOX"
    /\ outcome.kind = "raise"
    /\ \E k \in DOMAIN labels : labels[k].id = "INBOX"
====
